---- MODULE Spec2Model ----
(***************************************************************************)
(* Model of package mongodb: the ObjectID generator of id.go (package      *)
(* initialisation, NewObjectID called from concurrent goroutines) and the  *)
(* find-then-update helpers of mongo.go.                                   *)
(*                                                                         *)
(* Number representation.  A uint32 is a pair <<hi, lo>> of 16-bit limbs   *)
(* (value hi * 2^16 + lo) and the int64 returned by time.Now().Unix() is a *)
(* triple <<top, hi, lo>> (value top * 2^32 + hi * 2^16 + lo), so that the *)
(* full 32-bit wrap of the counter and the uint32() truncation of the      *)
(* clock are computed exactly.  Strings are sequences of character codes.  *)
(***************************************************************************)
EXTENDS Integers, Sequences, FiniteSets, TLC

\* ---------------------------------------------------------------- bounds
NumWorkers == 2      \* goroutines calling NewObjectID
MaxCalls   == 2      \* NewObjectID calls whose result is recorded
MaxTicks   == 1      \* changes of the wall clock
MaxBursts  == 1      \* runs of calls whose results are not recorded
NumCallers == 2      \* goroutines calling FindAndUpdate*
MaxOps     == 2      \* writes by other clients of the collection
MaxFinds   == 1      \* FindAndUpdate* calls per caller

Workers == 1 .. NumWorkers
Callers == 1 .. NumCallers

TwoTo8  == 256
TwoTo16 == 65536
TwoTo24 == 16777216

\* ------------------------------------------------------ integer helpers
\* byte(x) for a non-negative Go int x.
Byte(x) == x % TwoTo8

\* byte(u >> (8*k)) for a uint32 u = <<hi, lo>>, k in 0..3.
ByteOfUint32(u, k) ==
  CASE k = 0 -> u[2] % TwoTo8
    [] k = 1 -> u[2] \div TwoTo8
    [] k = 2 -> u[1] % TwoTo8
    [] k = 3 -> u[1] \div TwoTo8

\* uint32(x) for an int64 x = <<top, hi, lo>>: the low 32 bits.
Uint32(x) == <<x[2], x[3]>>

\* binary.BigEndian.PutUint32(b[:], v): the first four bytes of b.
PutUint32LittleEndian(v) ==
  <<ByteOfUint32(v, 0), ByteOfUint32(v, 1), ByteOfUint32(v, 2), ByteOfUint32(v, 3)>>

PutUint32(v) ==
  <<ByteOfUint32(v, 3), ByteOfUint32(v, 2), ByteOfUint32(v, 1), ByteOfUint32(v, 0)>>

\* The value atomic.AddUint32(&c, delta) stores and returns: c + delta
\* modulo 2^32, for 0 <= delta < 2^31.
AddUint32(c, delta) ==
  LET lo == c[2] + (delta % TwoTo16)
      hi == c[1] + (delta \div TwoTo16) + (lo \div TwoTo16)
  IN  <<hi % TwoTo16, lo % TwoTo16>>

\* time.Now().Unix() one second later / earlier.
ClockPlus(x) ==
  IF x[3] + 1 < TwoTo16 THEN <<x[1], x[2], x[3] + 1>>
  ELSE IF x[2] + 1 < TwoTo16 THEN <<x[1], x[2] + 1, 0>>
  ELSE <<x[1] + 1, 0, 0>>

ClockMinus(x) ==
  IF x[3] > 0 THEN <<x[1], x[2], x[3] - 1>>
  ELSE IF x[2] > 0 THEN <<x[1], x[2] - 1, TwoTo16 - 1>>
  ELSE <<x[1] - 1, TwoTo16 - 1, TwoTo16 - 1>>

\* ------------------------------------------------------- string helpers
RECURSIVE Flatten(_)
Flatten(ss) == IF ss = <<>> THEN <<>> ELSE Head(ss) \o Flatten(Tail(ss))

\* strconv-style decimal form of 0..255.
DecString(n) ==
  LET d(k) == <<48 + k>>
  IN  IF n < 10 THEN d(n)
      ELSE IF n < 100 THEN d(n \div 10) \o d(n % 10)
      ELSE d(n \div 100) \o d((n \div 10) % 10) \o d(n % 10)

\* net.IP.String() of a 4-byte address: dotted decimal.
IPString(ip) ==
  DecString(ip[1]) \o <<46>> \o DecString(ip[2]) \o <<46>> \o
  DecString(ip[3]) \o <<46>> \o DecString(ip[4])

\* net.IP.IsLoopback() of a 4-byte address: 127.0.0.0/8.
IsLoopback(ip) == ip[1] = 127

HexDigit(k) == IF k < 10 THEN 48 + k ELSE 87 + k

\* net.HardwareAddr.String(): lower-case hex pairs joined by ':', "" if empty.
RECURSIVE HardwareAddrString(_)
HardwareAddrString(mac) ==
  IF mac = <<>> THEN <<>>
  ELSE <<HexDigit(Head(mac) \div 16), HexDigit(Head(mac) % 16)>> \o
       (IF Tail(mac) = <<>> THEN <<>> ELSE <<58>> \o HardwareAddrString(Tail(mac)))

\* Stand-in for crypto/md5 (standard library, not part of the package): a
\* deterministic 16-byte digest of the buffer.  The digest of the empty
\* buffer starts with the first bytes of MD5(""), d4 1d 8c.
RECURSIVE Mix(_, _)
Mix(buf, pos) ==
  IF pos > Len(buf) THEN 0
  ELSE (buf[pos] * (2 * pos + 1) + 3 * Mix(buf, pos + 1)) % 65521

md5Sum(buf) ==
  LET empty == <<212, 29, 140, 217, 143, 0, 178, 4, 233, 128, 9, 152, 236, 248, 66, 126>>
      mixed == Mix(buf, 1) + 7 * Len(buf)
  IN  [k \in 1 .. 16 |-> (empty[k] + mixed * k + (mixed \div TwoTo8) * (k + 1)) % TwoTo8]

\* ------------------------------------------------------------- inputs
\* Results of os.Hostname(): an error, or the name "h1".
HostnameResults ==
  { [err |-> TRUE, name |-> <<>>], [err |-> FALSE, name |-> <<104, 49>>] }

\* Two interfaces: lo (127.0.0.1, no hardware address) and eth0 (10.0.0.5,
\* one address that is not a *net.IPNet, hardware address 00:16:3e:0a:ff:01).
LoAddrs   == << [isIPNet |-> TRUE, ip |-> <<127, 0, 0, 1>>] >>
Eth0Addrs == << [isIPNet |-> TRUE, ip |-> <<10, 0, 0, 5>>],
                [isIPNet |-> FALSE, ip |-> <<192, 168, 1, 7>>] >>
Eth0Mac   == <<0, 22, 62, 10, 255, 1>>

\* Results of net.Interfaces(): an error, or lo and eth0, where Addrs() of
\* eth0 succeeds or fails.
InterfaceResults ==
  { [err |-> TRUE, list |-> <<>>] } \cup
  { [err |-> FALSE,
     list |-> << [addrsErr |-> FALSE, addrs |-> LoAddrs, mac |-> <<>>],
                 [addrsErr |-> e, addrs |-> IF e THEN <<>> ELSE Eth0Addrs, mac |-> Eth0Mac] >>]
    : e \in BOOLEAN }

\* Results of io.ReadFull(rand.Reader, b[:]): an error, or four bytes.  The
\* bytes give the seeds 0x00FFFFFE, 0xFFFFFFFE and 0x123456FE.
RandomResults ==
  { [err |-> TRUE, b |-> <<0, 0, 0, 0>>] } \cup
  { [err |-> FALSE, b |-> r] :
      r \in { <<254, 255, 255, 0>>, <<254, 255, 255, 255>>, <<254, 86, 52, 18>> } }

\* Result of os.Getpid(): a pid above 2^16.
Pids == {70001}

\* Values of time.Now().Unix() at start: 0x654321FF and 2^32 - 1.
ClockStarts == { <<0, 25923, 8703>>, <<0, 65535, 65535>> }

\* Size of a run of calls whose results are not recorded.
BurstSizes == {TwoTo24 - 1}

\* -------------------------------------------------------------- state
VARIABLES
  osHostname,       \* what os.Hostname() returns on this host
  netIfaces,        \* what net.Interfaces() and Addrs() return on this host
  randReader,       \* what io.ReadFull(rand.Reader, ...) returns on this host
  clock,            \* time.Now().Unix()
  initPc,           \* position of package initialisation
  machineId,        \* var machineId
  processId,        \* var processId
  objectIdCounter,  \* var objectIdCounter
  seed,             \* value objectIdCounter was initialised with
  pc,               \* per goroutine: position inside NewObjectID
  loc,              \* per goroutine: locals of the running call
  ids,              \* returned identifiers, in order of return
  calls,            \* number of increments of objectIdCounter so far
  ticks,            \* number of clock changes so far
  bursts,           \* number of unrecorded runs so far
  coll,             \* documents of the collection, by key
  fpc,              \* per caller: position inside FindAndUpdate*
  freq,             \* per caller: arguments of the running call
  outcome,          \* per caller: what the last call returned
  result,           \* per caller: document decoded into result
  ops,              \* number of writes by other clients so far
  finds             \* per caller: number of calls started

genVars == <<osHostname, netIfaces, randReader, clock, initPc, machineId, processId,
             objectIdCounter, seed, pc, loc, ids, calls, ticks, bursts>>
dbVars  == <<coll, fpc, freq, outcome, result, ops, finds>>
vars    == <<genVars, dbVars>>

\* ------------------------------------------------- package initialisation
RECURSIVE WriteAddrs(_, _)
WriteAddrs(buf, a) ==
  IF a = <<>> THEN buf
  ELSE LET addr == Head(a)
       IN  WriteAddrs(IF addr.isIPNet /\ ~IsLoopback(addr.ip)
                        THEN buf \o IPString(addr.ip) ELSE buf,
                      Tail(a))

RECURSIVE WriteInterfacesSkipping(_, _)
WriteInterfacesSkipping(buf, list) ==
  IF list = <<>> THEN buf
  ELSE LET netInterface == Head(list)
       IN  WriteInterfacesSkipping(
             IF netInterface.addrsErr THEN buf
             ELSE WriteAddrs(buf, netInterface.addrs) \o HardwareAddrString(netInterface.mac),
             Tail(list))

RECURSIVE WriteInterfaces(_, _)
WriteInterfaces(buf, list) ==
  IF list = <<>> THEN buf
  ELSE LET netInterface == Head(list)
           withAddrs == IF netInterface.addrsErr THEN buf
                        ELSE WriteAddrs(buf, netInterface.addrs)
       IN  WriteInterfaces(withAddrs \o HardwareAddrString(netInterface.mac), Tail(list))

\* readMachineId(), given the results of os.Hostname() and net.Interfaces().
\* A failed Addrs() drops the whole interface, hardware address included.
readMachineIdSkipping(host, net) ==
  LET buf1 == IF host.err THEN <<>> ELSE host.name
      buf2 == IF net.err THEN buf1 ELSE WriteInterfacesSkipping(buf1, net.list)
  IN  SubSeq(md5Sum(buf2), 1, 3)

readMachineId(host, net) ==
  LET buf1 == IF host.err THEN <<>> ELSE host.name
      buf2 == IF net.err THEN buf1 ELSE WriteInterfaces(buf1, net.list)
  IN  SubSeq(md5Sum(buf2), 1, 3)

\* readRandomUint32()'s return value from the four bytes read.
RandomUint32(b) == <<b[4] * TwoTo8 + b[3], b[2] * TwoTo8 + b[1]>>

\* var machineId = readMachineId()
InitMachineId ==
  /\ initPc = "machineId"
  /\ machineId' = readMachineId(osHostname, netIfaces)
  /\ initPc' = "processId"
  /\ UNCHANGED <<osHostname, netIfaces, randReader, clock, processId, objectIdCounter, seed,
                 pc, loc, ids, calls, ticks, bursts, dbVars>>

\* var processId = os.Getpid()
InitProcessId ==
  /\ initPc = "processId"
  /\ \E p \in Pids : processId' = p
  /\ initPc' = "objectIdCounter"
  /\ UNCHANGED <<osHostname, netIfaces, randReader, clock, machineId, objectIdCounter, seed,
                 pc, loc, ids, calls, ticks, bursts, dbVars>>

\* var objectIdCounter = readRandomUint32(), with a failed read ignored.
InitObjectIdCounterNoPanic ==
  /\ initPc = "objectIdCounter"
  /\ objectIdCounter' = RandomUint32(randReader.b)
  /\ seed' = RandomUint32(randReader.b)
  /\ initPc' = "ready"
  /\ UNCHANGED <<osHostname, netIfaces, randReader, clock, machineId, processId,
                 pc, loc, ids, calls, ticks, bursts, dbVars>>

\* var objectIdCounter = readRandomUint32(): panics when the read fails.
InitObjectIdCounter ==
  /\ initPc = "objectIdCounter"
  /\ IF randReader.err
       THEN /\ initPc' = "panicked"
            /\ UNCHANGED <<objectIdCounter, seed>>
       ELSE /\ objectIdCounter' = RandomUint32(randReader.b)
            /\ seed' = RandomUint32(randReader.b)
            /\ initPc' = "ready"
  /\ UNCHANGED <<osHostname, netIfaces, randReader, clock, machineId, processId,
                 pc, loc, ids, calls, ticks, bursts, dbVars>>

\* ------------------------------------------------------------ NewObjectID
\* The 12 bytes NewObjectID assembles from the clock value t, machineId m,
\* processId p and the incremented counter i.  Variants: the pid field
\* low byte first; byte 8 taken from the counter; byte 11 repeating byte 10.
ObjectIDBytesPidSwapped(t, m, p, i) ==
  PutUint32(Uint32(t)) \o
  <<m[1], m[2], m[3]>> \o
  <<Byte(p), Byte(p \div TwoTo8)>> \o
  <<ByteOfUint32(i, 2), ByteOfUint32(i, 1), ByteOfUint32(i, 0)>>

ObjectIDBytesPidFromCounter(t, m, p, i) ==
  PutUint32(Uint32(t)) \o
  <<m[1], m[2], m[3]>> \o
  <<Byte(p \div TwoTo8), ByteOfUint32(i, 0)>> \o
  <<ByteOfUint32(i, 2), ByteOfUint32(i, 1), ByteOfUint32(i, 0)>>

ObjectIDBytesRepeated(t, m, p, i) ==
  PutUint32(Uint32(t)) \o
  <<m[1], m[2], m[3]>> \o
  <<Byte(p \div TwoTo8), Byte(p)>> \o
  <<ByteOfUint32(i, 2), ByteOfUint32(i, 1), ByteOfUint32(i, 1)>>

ObjectIDBytes(t, m, p, i) ==
  PutUint32(Uint32(t)) \o
  <<m[1], m[2], m[3]>> \o
  <<Byte(p \div TwoTo8), Byte(p)>> \o
  <<ByteOfUint32(i, 2), ByteOfUint32(i, 1), ByteOfUint32(i, 0)>>

NoLoc == [t |-> <<0, 0, 0>>, start |-> 0, b |-> <<>>, c |-> <<0, 0>>, n |-> 0]

Running == {w \in Workers : pc[w] # "idle"}

\* Entry of NewObjectID up to the clock read: var b [12]byte; time.Now().Unix().
\* Goroutines are interchangeable, so a call is started by the idle one of
\* lowest number.
ReadTime(w) ==
  /\ initPc = "ready"
  /\ pc[w] = "idle"
  /\ \A v \in Workers : v < w => pc[v] # "idle"
  /\ Len(ids) + Cardinality(Running) < MaxCalls
  /\ pc' = [pc EXCEPT ![w] = "add"]
  /\ loc' = [loc EXCEPT ![w] = [NoLoc EXCEPT !.t = clock, !.start = Len(ids)]]
  /\ UNCHANGED <<osHostname, netIfaces, randReader, clock, initPc, machineId, processId,
                 objectIdCounter, seed, ids, calls, ticks, bursts, dbVars>>

\* The rest of the body, with the counter read but the sum not stored.
AtomicAddNoStore(w) ==
  /\ pc[w] = "add"
  /\ LET i == AddUint32(objectIdCounter, 1)
     IN  /\ objectIdCounter' = objectIdCounter
         /\ loc' = [loc EXCEPT ![w] =
                      [@ EXCEPT !.b = ObjectIDBytes(loc[w].t, machineId, processId, i),
                                !.c = objectIdCounter, !.n = calls + 1]]
  /\ calls' = calls + 1
  /\ pc' = [pc EXCEPT ![w] = "ret"]
  /\ UNCHANGED <<osHostname, netIfaces, randReader, clock, initPc, machineId, processId,
                 seed, ids, ticks, bursts, dbVars>>

\* The rest of the body, emitting the counter's value before the increment.
AtomicAddOld(w) ==
  /\ pc[w] = "add"
  /\ LET i == AddUint32(objectIdCounter, 1)
     IN  /\ objectIdCounter' = i
         /\ loc' = [loc EXCEPT ![w] =
                      [@ EXCEPT !.b = ObjectIDBytes(loc[w].t, machineId, processId, objectIdCounter),
                                !.c = objectIdCounter, !.n = calls + 1]]
  /\ calls' = calls + 1
  /\ pc' = [pc EXCEPT ![w] = "ret"]
  /\ UNCHANGED <<osHostname, netIfaces, randReader, clock, initPc, machineId, processId,
                 seed, ids, ticks, bursts, dbVars>>

\* The rest of the body, with the increment under a lock that a caller
\* keeps until it has returned.
AtomicAddLocked(w) ==
  /\ pc[w] = "add"
  /\ \A v \in Workers \ {w} : pc[v] # "ret"
  /\ LET i == AddUint32(objectIdCounter, 1)
     IN  /\ objectIdCounter' = i
         /\ loc' = [loc EXCEPT ![w] =
                      [@ EXCEPT !.b = ObjectIDBytes(loc[w].t, machineId, processId, i),
                                !.c = objectIdCounter, !.n = calls + 1]]
  /\ calls' = calls + 1
  /\ pc' = [pc EXCEPT ![w] = "ret"]
  /\ UNCHANGED <<osHostname, netIfaces, randReader, clock, initPc, machineId, processId,
                 seed, ids, ticks, bursts, dbVars>>

\* The rest of the body: the fingerprint bytes from the package variables,
\* i := atomic.AddUint32(&objectIdCounter, 1), the three counter bytes.
AtomicAdd(w) ==
  /\ pc[w] = "add"
  /\ LET i == AddUint32(objectIdCounter, 1)
     IN  /\ objectIdCounter' = i
         /\ loc' = [loc EXCEPT ![w] =
                      [@ EXCEPT !.b = ObjectIDBytes(loc[w].t, machineId, processId, i),
                                !.c = objectIdCounter, !.n = calls + 1]]
  /\ calls' = calls + 1
  /\ pc' = [pc EXCEPT ![w] = "ret"]
  /\ UNCHANGED <<osHostname, netIfaces, randReader, clock, initPc, machineId, processId,
                 seed, ids, ticks, bursts, dbVars>>

\* return b
Return(w) ==
  /\ pc[w] = "ret"
  /\ ids' = Append(ids, loc[w])
  /\ pc' = [pc EXCEPT ![w] = "idle"]
  /\ loc' = [loc EXCEPT ![w] = NoLoc]
  /\ UNCHANGED <<osHostname, netIfaces, randReader, clock, initPc, machineId, processId,
                 objectIdCounter, seed, calls, ticks, bursts, dbVars>>

\* k complete calls of NewObjectID in a row whose results are not kept:
\* the counter advances by k.
Burst ==
  /\ initPc = "ready"
  /\ bursts < MaxBursts
  /\ \E k \in BurstSizes :
       /\ objectIdCounter' = AddUint32(objectIdCounter, k)
       /\ calls' = calls + k
  /\ bursts' = bursts + 1
  /\ UNCHANGED <<osHostname, netIfaces, randReader, clock, initPc, machineId, processId,
                 seed, pc, loc, ids, ticks, dbVars>>

\* The wall clock reaches the next second.
Tick ==
  /\ initPc = "ready"
  /\ ticks < MaxTicks
  /\ clock' = ClockPlus(clock)
  /\ ticks' = ticks + 1
  /\ UNCHANGED <<osHostname, netIfaces, randReader, initPc, machineId, processId,
                 objectIdCounter, seed, pc, loc, ids, calls, bursts, dbVars>>

\* The wall clock is set back by one second.
ClockBack ==
  /\ initPc = "ready"
  /\ ticks < MaxTicks
  /\ clock' = ClockMinus(clock)
  /\ ticks' = ticks + 1
  /\ UNCHANGED <<osHostname, netIfaces, randReader, initPc, machineId, processId,
                 objectIdCounter, seed, pc, loc, ids, calls, bursts, dbVars>>

\* The state before package initialisation, given what the host returns.
InitGen ==
  /\ clock \in ClockStarts
  /\ initPc = "machineId"
  /\ machineId = <<>>
  /\ processId = 0
  /\ objectIdCounter = <<0, 0>>
  /\ seed = <<0, 0>>
  /\ pc = [w \in Workers |-> "idle"]
  /\ loc = [w \in Workers |-> NoLoc]
  /\ ids = <<>>
  /\ calls = 0
  /\ ticks = 0
  /\ bursts = 0

\* A host where every lookup of readMachineId fails, and one where all succeed.
AllLookupsFail == <<[err |-> TRUE, name |-> <<>>], [err |-> TRUE, list |-> <<>>]>>

AllLookupsWork ==
  <<[err |-> FALSE, name |-> <<104, 49>>],
    [err |-> FALSE,
     list |-> << [addrsErr |-> FALSE, addrs |-> LoAddrs, mac |-> <<>>],
                 [addrsErr |-> FALSE, addrs |-> Eth0Addrs, mac |-> Eth0Mac] >>]>>

\* The random source of the hosts on which every lookup result is tried:
\* failing, or giving the seed 0x123456FE.
HostRandomResults ==
  { r \in RandomResults : r.err \/ r.b = <<254, 86, 52, 18>> }

\* ------------------------------------------------------------ mongo.go
\* The collection holds at most one document per key; a filter selects the
\* document of one key.  A document has a field a ($set) and a field n ($inc).
Keys   == {1, 2}
Absent == <<>>
NewDoc == [a |-> 0, n |-> 0]
SetValues == {1, 2}

\* UpdateType.String() for the operators of the calls modelled here.
UpdateTypeString(u) == IF u = "UpdateInc" THEN "$inc" ELSE "$set"

\* The document after applying {op: updater} to doc.
ApplyUpdate(doc, op, x) ==
  IF op = "$inc" THEN [doc EXCEPT !.n = @ + x] ELSE [doc EXCEPT !.a = x]

\* Arguments of FindAndUpdateSetOne (upType UpdateSet or UpdateInc) and of
\* FindAndUpdateSetInc.
Requests ==
  { [fn |-> "FindAndUpdateSetOne", k |-> k, upType |-> u, x |-> x, inc |-> 0] :
      k \in Keys, u \in {"UpdateSet", "UpdateInc"}, x \in {1} } \cup
  { [fn |-> "FindAndUpdateSetInc", k |-> k, upType |-> "UpdateSet", x |-> x, inc |-> 1] :
      k \in Keys, x \in {2} }

\* Entry of FindAndUpdateSetOne / FindAndUpdateSetInc up to the test of
\* temp.Err(): collection.FindOne(ctx, filter); UpdateError if it failed.
FindOne(c) ==
  /\ fpc[c] = "idle"
  /\ finds[c] < MaxFinds
  /\ finds' = [finds EXCEPT ![c] = @ + 1]
  /\ \E r \in Requests :
       IF coll[r.k] # Absent
         THEN /\ fpc' = [fpc EXCEPT ![c] = "update"]
              /\ freq' = [freq EXCEPT ![c] = r]
              /\ outcome' = [outcome EXCEPT ![c] = "none"]
         ELSE /\ fpc' = fpc
              /\ freq' = [freq EXCEPT ![c] = r]
              /\ outcome' = [outcome EXCEPT ![c] = "UpdateError"]
  /\ UNCHANGED <<coll, result, ops, genVars>>

\* return collection.FindOneAndUpdate(ctx, filter, update, ops).Decode(result)
\* with ReturnDocument After: the driver's ErrNoDocuments if nothing matches.
FindOneAndUpdate(c) ==
  /\ fpc[c] = "update"
  /\ LET r == freq[c]
         after == IF r.fn = "FindAndUpdateSetInc"
                    THEN ApplyUpdate(ApplyUpdate(coll[r.k], UpdateTypeString("UpdateSet"), r.x),
                                     UpdateTypeString("UpdateInc"), r.inc)
                    ELSE ApplyUpdate(coll[r.k], UpdateTypeString(r.upType), r.x)
     IN  IF coll[r.k] # Absent
           THEN /\ coll' = [coll EXCEPT ![r.k] = after]
                /\ result' = [result EXCEPT ![c] = after]
                /\ outcome' = [outcome EXCEPT ![c] = "nil"]
           ELSE /\ outcome' = [outcome EXCEPT ![c] = "ErrNoDocuments"]
                /\ UNCHANGED <<coll, result>>
  /\ fpc' = [fpc EXCEPT ![c] = "idle"]
  /\ UNCHANGED <<freq, ops, finds, genVars>>

\* Another client's InsertOne of a new document.
InsertOne ==
  /\ ops < MaxOps
  /\ \E k \in Keys :
       /\ coll[k] = Absent
       /\ coll' = [coll EXCEPT ![k] = NewDoc]
  /\ ops' = ops + 1
  /\ UNCHANGED <<fpc, freq, outcome, result, finds, genVars>>

\* Another client's UpdateOne with $set.
UpdateOne ==
  /\ ops < MaxOps
  /\ \E k \in Keys, x \in SetValues :
       /\ coll[k] # Absent
       /\ coll' = [coll EXCEPT ![k] = ApplyUpdate(@, UpdateTypeString("UpdateSet"), x)]
  /\ ops' = ops + 1
  /\ UNCHANGED <<fpc, freq, outcome, result, finds, genVars>>

\* Another client's DeleteOne.
DeleteOne ==
  /\ ops < MaxOps
  /\ \E k \in Keys :
       /\ coll[k] # Absent
       /\ coll' = [coll EXCEPT ![k] = Absent]
  /\ ops' = ops + 1
  /\ UNCHANGED <<fpc, freq, outcome, result, finds, genVars>>

NoRequest == [fn |-> "", k |-> 0, upType |-> "", x |-> 0, inc |-> 0]

InitDb ==
  /\ coll \in [Keys -> {Absent, NewDoc}]
  /\ fpc = [c \in Callers |-> "idle"]
  /\ freq = [c \in Callers |-> NoRequest]
  /\ outcome = [c \in Callers |-> "none"]
  /\ result = [c \in Callers |-> Absent]
  /\ ops = 0
  /\ finds = [c \in Callers |-> 0]

NextDb ==
  \/ \E c \in Callers : FindOne(c)
  \/ \E c \in Callers : FindOneAndUpdate(c)
  \/ InsertOne
  \/ UpdateOne
  \/ DeleteOne

\* The generator before package initialisation, on a host where every
\* lookup fails.
InitGenIdle ==
  /\ osHostname = AllLookupsFail[1]
  /\ netIfaces = AllLookupsFail[2]
  /\ randReader = [err |-> TRUE, b |-> <<0, 0, 0, 0>>]
  /\ clock = <<0, 25923, 8703>>
  /\ initPc = "machineId"
  /\ machineId = <<>>
  /\ processId = 0
  /\ objectIdCounter = <<0, 0>>
  /\ seed = <<0, 0>>
  /\ pc = [w \in Workers |-> "idle"]
  /\ loc = [w \in Workers |-> NoLoc]
  /\ ids = <<>>
  /\ calls = 0
  /\ ticks = 0
  /\ bursts = 0

\* The collection with no caller and no document.
InitDbIdle ==
  /\ coll = [k \in Keys |-> Absent]
  /\ fpc = [c \in Callers |-> "idle"]
  /\ freq = [c \in Callers |-> NoRequest]
  /\ outcome = [c \in Callers |-> "none"]
  /\ result = [c \in Callers |-> Absent]
  /\ ops = 0
  /\ finds = [c \in Callers |-> 0]

NextGen ==
  \/ InitMachineId
  \/ InitProcessId
  \/ InitObjectIdCounter
  \/ \E w \in Workers : ReadTime(w)
  \/ \E w \in Workers : AtomicAdd(w)
  \/ \E w \in Workers : Return(w)
  \/ Burst
  \/ Tick
  \/ ClockBack

\* Every seed and clock start, on a host where all lookups fail or all work.
Init ==
  /\ \E host \in {AllLookupsFail, AllLookupsWork} :
       osHostname = host[1] /\ netIfaces = host[2]
  /\ randReader \in RandomResults
  /\ InitGen
  /\ InitDbIdle

Spec == Init /\ [][NextGen]_vars

\* Every combination of lookup results, with one seed or a failing random source.
InitHost ==
  /\ osHostname \in HostnameResults
  /\ netIfaces \in InterfaceResults
  /\ randReader \in HostRandomResults
  /\ InitGen
  /\ InitDbIdle

SpecHost == InitHost /\ [][NextGen]_vars

InitOnDb == InitGenIdle /\ InitDb

SpecDb == InitOnDb /\ [][NextDb]_vars

\* ============================================================== claims
\* Bytes 9-11 of an identifier read as a big-endian 24-bit integer.
CounterField(b) == b[10] * TwoTo16 + b[11] * TwoTo8 + b[12]

\* Bytes 0-3 of an identifier as a pair of 16-bit halves.
TimestampField(b) == <<b[1] * TwoTo8 + b[2], b[3] * TwoTo8 + b[4]>>

\* The low 24 bits of a uint32.
Low24(u) == (u[1] % TwoTo8) * TwoTo16 + u[2]

\* c + 1 modulo 2^32, by cases.
Succ32(c) ==
  IF c = <<TwoTo16 - 1, TwoTo16 - 1>> THEN <<0, 0>>
  ELSE IF c[2] = TwoTo16 - 1 THEN <<c[1] + 1, 0>>
  ELSE <<c[1], c[2] + 1>>

\* Order of two uint32 values.
Less32(u, v) == u[1] < v[1] \/ (u[1] = v[1] /\ u[2] < v[2])

\* Lexicographic order of two identifiers.
BytesLess(x, y) ==
  \E k \in 1 .. 12 : x[k] < y[k] /\ \A j \in 1 .. (k - 1) : x[j] = y[j]

IdIndex == 1 .. Len(ids)

\* C1: while fewer than 2^24 calls have been made, under every interleaving
\* of the concurrent callers the returned identifiers are pairwise distinct,
\* no two calls saw the same counter value, and no increment is lost (the
\* counter equals the seed plus the number of calls, modulo 2^32).
C1_ConcurrentDistinct ==
  /\ initPc = "ready" => objectIdCounter = AddUint32(seed, calls)
  /\ calls < TwoTo24 =>
       \A i \in IdIndex, j \in IdIndex :
         i # j => ids[i].b # ids[j].b /\ ids[i].c # ids[j].c

\* Two calls that overlapped have both returned.
C1_Witness ==
  /\ Len(ids) = 2
  /\ ids[2].start = 0
  /\ calls < TwoTo24

\* C2: the counter field of the call that follows another is the other's
\* counter field plus 1 modulo 2^24, and the first identifier carries
\* (seed + 1) mod 2^24.
C2_CounterStep ==
  /\ \A i \in IdIndex, j \in IdIndex :
       ids[j].n = ids[i].n + 1 =>
         CounterField(ids[j].b) = (CounterField(ids[i].b) + 1) % TwoTo24
  /\ \A i \in IdIndex :
       ids[i].n = 1 => CounterField(ids[i].b) = (Low24(seed) + 1) % TwoTo24

\* Two consecutive calls, the second over the wrap of the counter at 2^32.
C2_Witness ==
  /\ Len(ids) = 2
  /\ ids[2].n = ids[1].n + 1
  /\ ids[1].n = 1
  /\ ids[2].c = <<TwoTo16 - 1, TwoTo16 - 1>>

\* C3 as stated: identifiers of calls that read the same clock value are
\* pairwise distinct, however many calls are made in that second.
C3_SameSecondDistinct ==
  \A i \in IdIndex, j \in IdIndex :
    (i # j /\ ids[i].t = ids[j].t) => ids[i].b # ids[j].b

\* C3 amended: identifiers of calls that read the same clock value and are
\* fewer than 2^24 counter increments apart are distinct.
C3_SameSecondDistinctBelowWrap ==
  \A i \in IdIndex, j \in IdIndex :
    (i # j /\ ids[i].t = ids[j].t /\ ids[j].n - ids[i].n < TwoTo24
           /\ ids[i].n - ids[j].n < TwoTo24)
      => ids[i].b # ids[j].b

\* Two calls in the same second, the counter field wrapping between them.
C3_Witness ==
  /\ Len(ids) = 2
  /\ ids[1].t = ids[2].t
  /\ ids[2].n = ids[1].n + 1
  /\ CounterField(ids[2].b) = 0

\* C4 as stated: an identifier returned before another call started
\* compares strictly less than that call's identifier.
C4_SortedByGeneration ==
  \A i \in IdIndex, j \in IdIndex :
    i <= ids[j].start => BytesLess(ids[i].b, ids[j].b)

\* C4 amended: an identifier returned before another call started compares
\* strictly less than that call's identifier when the later call read a
\* greater 32-bit clock value, or the same one with the low 24 bits of its
\* counter value greater than the earlier call's.
C4_SortedUnlessWrapped ==
  \A i \in IdIndex, j \in IdIndex :
    ( /\ i <= ids[j].start
      /\ \/ Less32(Uint32(ids[i].t), Uint32(ids[j].t))
         \/ /\ Uint32(ids[i].t) = Uint32(ids[j].t)
            /\ Low24(Succ32(ids[i].c)) < Low24(Succ32(ids[j].c)) )
      => BytesLess(ids[i].b, ids[j].b)

\* Two calls one after the other in different seconds, the later with the
\* smaller counter field.
C4_Witness ==
  /\ Len(ids) = 2
  /\ ids[2].start = 1
  /\ Less32(Uint32(ids[1].t), Uint32(ids[2].t))
  /\ CounterField(ids[2].b) < CounterField(ids[1].b)

\* C5: bytes 4-8 of every returned identifier are the same, and are the
\* machineId and processId that initialisation set.
C5_FingerprintFixed ==
  /\ \A i \in IdIndex, j \in IdIndex : SubSeq(ids[i].b, 5, 9) = SubSeq(ids[j].b, 5, 9)
  /\ \A i \in IdIndex :
       /\ SubSeq(ids[i].b, 5, 7) = machineId
       /\ ids[i].b[8] * TwoTo8 + ids[i].b[9] = processId % TwoTo16

\* Two identifiers that differ in the timestamp and in the counter.
C5_Witness ==
  /\ Len(ids) = 2
  /\ TimestampField(ids[1].b) # TimestampField(ids[2].b)
  /\ CounterField(ids[1].b) # CounterField(ids[2].b)

\* C6: every returned identifier has the reference layout for the clock
\* value t read by the call and the counter value c before its increment:
\* bytes 0-3 t mod 2^32 big-endian, bytes 4-6 machineId, bytes 7-8 the low
\* 16 bits of processId big-endian, bytes 9-11 the low 24 bits of c + 1.
C6_Layout ==
  \A i \in IdIndex :
    LET r == ids[i] IN
      /\ Len(r.b) = 12
      /\ TimestampField(r.b) = <<r.t[2], r.t[3]>>
      /\ <<r.b[5], r.b[6], r.b[7]>> = machineId
      /\ r.b[8] * TwoTo8 + r.b[9] = processId % TwoTo16
      /\ CounterField(r.b) = Low24(Succ32(r.c))

\* An identifier made with the clock past 2^32, a pid past 2^16 and the
\* counter at 2^32 - 1.
C6_Witness ==
  \E i \in IdIndex :
    /\ ids[i].t[1] = 1
    /\ processId >= TwoTo16
    /\ ids[i].c = <<TwoTo16 - 1, TwoTo16 - 1>>

C8_TotalNonBlocking ==
  /\ \A w \in Workers :
       /\ pc[w] = "add" => ENABLED AtomicAdd(w)
       /\ pc[w] = "ret" => ENABLED Return(w) /\ Len(loc[w].b) = 12
  /\ \A i \in IdIndex :
       /\ Len(ids[i].b) = 12
       /\ \A k \in 1 .. 12 : ids[i].b[k] \in 0 .. 255

\* One caller is about to increment the counter, which is at 2^32 - 1,
\* while another has incremented and not yet returned.
C8_Witness ==
  /\ pc[1] = "add"
  /\ pc[2] = "ret"
  /\ objectIdCounter = <<TwoTo16 - 1, TwoTo16 - 1>>

\* What readMachineId should hash: the hostname if obtained, then for each
\* interface its non-loopback IP strings if obtained and its hardware
\* address string.
ExpectedSource(host, net) ==
  LET ipStrings(a) ==
        Flatten([j \in 1 .. Len(a) |->
                   IF a[j].isIPNet /\ a[j].ip[1] # 127 THEN IPString(a[j].ip) ELSE <<>>])
      perInterface(f) ==
        (IF f.addrsErr THEN <<>> ELSE ipStrings(f.addrs)) \o HardwareAddrString(f.mac)
  IN  (IF host.err THEN <<>> ELSE host.name) \o
      (IF net.err THEN <<>>
       ELSE Flatten([k \in 1 .. Len(net.list) |-> perInterface(net.list[k])]))

\* The first 3 bytes of the hash of that input, for every host.
ExpectedMachineId ==
  [host \in HostnameResults, net \in InterfaceResults |->
     SubSeq(md5Sum(ExpectedSource(host, net)), 1, 3)]

C10_Atomic ==
  \A c \in Callers : outcome[c] \in {"none", "nil", "UpdateError"}

====
